---------------------------- MODULE Spec2Model ----------------------------
(*************************************************************************)
(* Model of the index-statistics pipeline:                                *)
(*   ingest/csv_to_canonical.py   raw documents -> canonical table        *)
(*   analysis/pbr_stats.py, roe_stats.py, sector_hhi.py   table -> metrics*)
(*   render/common.py             metrics -> narrative buckets            *)
(* Every stage is a pure function of a document handed over as a file, so *)
(* each stage is one action applied to inputs drawn in Init.              *)
(*                                                                        *)
(* Numbers are integers in tenths (pbr 8 is 0.8); a quotient is kept as   *)
(* the pair <<numerator, denominator>> and compared by cross              *)
(* multiplication, so no rounding is introduced by the model.             *)
(*************************************************************************)
EXTENDS Integers, Sequences, FiniteSets, TLC

VARIABLES pc,            \* position of the stage being run
          constituents,  \* raw constituents document (parsed YAML)
          financials,    \* raw financials document (parsed YAML)
          canonical,     \* outcome of build_canonical
          dataset,       \* table handed to the statistics modules
          pbr_metrics,   \* outcome of compute_pbr_stats
          roe_metrics,   \* outcome of compute_roe_stats
          dy_metrics,    \* yield metrics document
          hhi_metrics,   \* outcome of compute_concentration_metrics
          resolved,      \* per index, the weights _resolve_weights returned
          logic,         \* outcome of derive_logic_summary
          insights,      \* outcome of build_insights
          codex,         \* what the narrative-refresh helper finds when run
          notes,         \* the notes file the helper writes
          runs           \* per finished run, the metrics documents it wrote

vars == <<pc, constituents, financials, canonical, dataset, pbr_metrics,
          roe_metrics, dy_metrics, hhi_metrics, resolved, logic, insights,
          codex, notes, runs>>

-----------------------------------------------------------------------------
(* Bounds of the model *)

\* most entries in a constituents document
MaxCons == 2
\* most entries in a financials document
MaxFins == 2
\* most entries in both raw documents together
MaxRows == 3
\* most rows of a table handed to the PBR and ROE modules
MaxTable == 3
\* most rows of a table handed to the concentration module
MaxHoldings == 3
\* most choices in a response of the service
MaxChoices == 2
\* most entries in both raw documents of a pipeline that is run again
MaxRunRows == 2
\* most runs of the pipeline on the same documents
MaxRuns == 2
\* most financial records for one constituent whose fields may not parse
MaxRecords == 2

-----------------------------------------------------------------------------
(* Values of a parsed document *)

\* a number n/d with d > 0 (floats are kept as exact quotients)
Rat(n, d) == [tag |-> "num", val |-> n, den |-> d]
Num(n) == Rat(n, 1)
\* Python None / pandas NaN / NaT
None == [tag |-> "none", val |-> 0, den |-> 1]
\* a string that does not parse as a number or a date
Str == [tag |-> "str", val |-> 0, den |-> 1]
\* a timestamp (day ordinal)
Date(d) == [tag |-> "date", val |-> d, den |-> 1]
\* a date formatted as YYYY-MM-DD
DateStr(d) == [tag |-> "datestr", val |-> d, den |-> 1]

\* a - b compared with 0
RatLess(a, b) == a.val * b.den < b.val * a.den
RatEq(a, b) == a.val * b.den = b.val * a.den
RatAdd(a, b) ==
    IF a.den = b.den THEN Rat(a.val + b.val, a.den)
    ELSE Rat(a.val * b.den + b.val * a.den, a.den * b.den)
RatMul(a, b) == Rat(a.val * b.val, a.den * b.den)
\* a float nan or inf: not None, and no finite number
NaN == [tag |-> "nan", val |-> 0, den |-> 1]
\* float division n / d; a zero divisor gives inf or nan, no finite number
Div(n, d) ==
    IF d > 0 THEN Rat(n, d)
    ELSE IF d < 0 THEN Rat(0 - n, 0 - d)
    ELSE NaN

IsNone(v) == v.tag = "none"

\* a YAML scalar standing where a mapping or a list is expected
Scalar == [kind |-> "scalar"]
Null == [kind |-> "null"]
ListDoc(s) == [kind |-> "list", items |-> s]
\* a mapping; items is the sequence of its (key, value) pairs in document order
DictDoc(s) == [kind |-> "dict", items |-> s]
\* a mapping that has a "records" key
RecordsDoc(v) == [kind |-> "records", records |-> v]
\* a path at which there is no file
MissingFile == [kind |-> "missing"]

\* all sequences over S of length at most n
BSeq(S, n) == UNION {[1..k -> S] : k \in 0..n}

\* the strings of the model in Python's string order
Lexicon == <<"", " 1001", "1001", "2002", "25", "50", "75", "Industrials",
             "Materials", "Unknown", "constituents", "count", "hhi", "lt1",
             "mean", "median", "quantiles", "records", "top10_weight", "topix",
             "yomiuri333">>
Rank(s) == CHOOSE i \in 1..Len(Lexicon) : Lexicon[i] = s
StrLess(a, b) == Rank(a) < Rank(b)

DEFAULT_INDEX == "yomiuri333"

-----------------------------------------------------------------------------
(* pandas primitives used by the stages *)

\* pd.to_numeric(errors="coerce") on one cell
to_numeric(v) == IF v.tag = "num" THEN v ELSE None

\* pd.to_datetime(errors="coerce") on one cell
to_datetime(v) == IF v.tag = "date" THEN v ELSE None

\* Series.dt.strftime("%Y-%m-%d") on one cell
strftime(v) == IF v.tag = "date" THEN DateStr(v.val) ELSE None

\* Series.fillna(other) on one cell
fillna(v, other) == IF IsNone(v) THEN other ELSE v

\* lexicographic order on integer tuples of equal length
RECURSIVE TupleLess(_, _)
TupleLess(a, b) ==
    IF a = <<>> THEN FALSE
    ELSE IF Head(a) # Head(b) THEN Head(a) < Head(b)
         ELSE TupleLess(Tail(a), Tail(b))

\* position at which key k goes into the sorted index list p: after every
\* index whose key is not greater (the sort is stable)
RECURSIVE InsertSorted(_, _, _)
InsertSorted(p, i, keys) ==
    IF p = <<>> THEN <<i>>
    ELSE IF TupleLess(keys[i], keys[p[Len(p)]])
         THEN Append(InsertSorted(SubSeq(p, 1, Len(p) - 1), i, keys), p[Len(p)])
         ELSE Append(p, i)

\* the indices 1..n in stable ascending order of their keys
RECURSIVE SortPerm(_, _)
SortPerm(n, keys) ==
    IF n = 0 THEN <<>> ELSE InsertSorted(SortPerm(n - 1, keys), n, keys)

\* DataFrame.sort_values on several columns: a stable lexsort; Key gives the
\* integer tuple a row is ordered by
SortValues(s, Key(_)) ==
    LET keys == [i \in DOMAIN s |-> Key(s[i])]
        perm == SortPerm(Len(s), keys)
    IN [i \in DOMAIN s |-> s[perm[i]]]

\* the rows of s at the positions in I, in their order in s
RECURSIVE TakeRows(_, _, _)
TakeRows(s, I, n) ==
    IF n = 0 THEN <<>>
    ELSE IF n \in I THEN Append(TakeRows(s, I, n - 1), s[n])
         ELSE TakeRows(s, I, n - 1)

\* concatenation of a sequence of sequences
RECURSIVE Flatten(_)
Flatten(ss) == IF ss = <<>> THEN <<>> ELSE Head(ss) \o Flatten(Tail(ss))

-----------------------------------------------------------------------------
(* ingest/csv_to_canonical.py *)

NUMERIC_COLUMNS == {"pbr", "roe", "dy", "market_cap", "weight"}

\* a key that the entry does not have is the empty string
ABSENT == ""

\* a raised exception, or a returned table
Raise(e) == [status |-> e, rows |-> <<>>]
Frame(rows) == [status |-> "ok", rows |-> rows]

\* str(code).strip()
str_strip(code) == IF code = " 1001" THEN "1001" ELSE code

\* the (index_name, entries) pairs _normalize_constituents iterates over
ConstituentPairs(raw_data) ==
    IF raw_data.kind = "dict" THEN raw_data.items
    ELSE IF raw_data.kind = "records"
         THEN <<[key |-> "records", value |-> raw_data.records]>>
         ELSE <<[key |-> ABSENT, value |-> raw_data]>>

\* entries["records"] when the group is a mapping with that key
CandidateEntries(entries) ==
    IF entries.kind = "records" THEN entries.records ELSE entries

\* the record built from one mapping-shaped constituent entry
ConstituentRecord(entry, index_name) ==
    [index  |-> IF entry.index # ABSENT THEN entry.index
                ELSE IF index_name # ABSENT THEN index_name
                ELSE DEFAULT_INDEX,
     code   |-> str_strip(entry.code),
     name   |-> entry.name,
     sector |-> IF entry.sector = ABSENT THEN "Unknown" ELSE entry.sector,
     weight |-> entry.weight]

\* the rows one group contributes
RECURSIVE ConstituentRows(_, _)
ConstituentRows(items, index_name) ==
    IF items = <<>> THEN <<>>
    ELSE LET entry == Head(items)
             rest  == ConstituentRows(Tail(items), index_name)
         IN IF entry.kind # "entry" THEN rest
            ELSE <<ConstituentRecord(entry, index_name)>> \o rest

_normalize_constituents(raw_data) ==
    LET pairs == ConstituentPairs(raw_data)
        live  == {i \in DOMAIN pairs : pairs[i].value.kind # "null"}
        bad   == {i \in live : CandidateEntries(pairs[i].value).kind # "list"}
        rows  == Flatten([i \in DOMAIN pairs |->
                    IF i \in live
                    THEN ConstituentRows(CandidateEntries(pairs[i].value).items,
                                         pairs[i].key)
                    ELSE <<>>])
    IN IF bad # {} THEN Raise("ValueError")
       ELSE IF rows = <<>> THEN Raise("ValueError")
       ELSE Frame(rows)

\* one financial entry with the group's name as its default index
SetDefaultIndex(item, index_name) ==
    IF item.index = ABSENT THEN [item EXCEPT !.index = index_name] ELSE item

RECURSIVE GroupedFinancialEntries(_, _)
GroupedFinancialEntries(items, index_name) ==
    IF items = <<>> THEN <<>>
    ELSE LET item == Head(items)
             rest == GroupedFinancialEntries(Tail(items), index_name)
         IN IF item.kind # "entry" THEN rest
            ELSE <<SetDefaultIndex(item, index_name)>> \o rest

\* the entries _normalize_financials reads its records from
FinancialEntries(raw_data) ==
    IF raw_data.kind = "records" THEN raw_data.records
    ELSE IF raw_data.kind = "dict"
         THEN ListDoc(Flatten([i \in DOMAIN raw_data.items |->
                  IF raw_data.items[i].value.kind = "list"
                  THEN GroupedFinancialEntries(raw_data.items[i].value.items,
                                               raw_data.items[i].key)
                  ELSE <<>>]))
         ELSE raw_data

FinancialRecord(entry) ==
    [index      |-> IF entry.index = ABSENT THEN DEFAULT_INDEX ELSE entry.index,
     code       |-> str_strip(entry.code),
     date       |-> to_datetime(entry.date),
     pbr        |-> entry.pbr,
     roe        |-> entry.roe,
     dy         |-> entry.dy,
     market_cap |-> entry.market_cap,
     weight     |-> entry.weight]

RECURSIVE FinancialRows(_)
FinancialRows(items) ==
    IF items = <<>> THEN <<>>
    ELSE IF Head(items).kind # "entry" THEN FinancialRows(Tail(items))
         ELSE <<FinancialRecord(Head(items))>> \o FinancialRows(Tail(items))

\* an empty frame (no rows, no columns) is Frame(<<>>)
\* _normalize_financials that reads entries that are no list as no entries
_normalize_financials_lenient(raw_data) ==
    IF raw_data.kind = "null" THEN Frame(<<>>)
    ELSE LET entries == FinancialEntries(raw_data)
         IN IF entries.kind # "list" THEN Frame(<<>>)
            ELSE Frame(FinancialRows(entries.items))

_normalize_financials(raw_data) ==
    IF raw_data.kind = "null" THEN Frame(<<>>)
    ELSE LET entries == FinancialEntries(raw_data)
         IN IF entries.kind # "list" THEN Raise("ValueError")
            ELSE Frame(FinancialRows(entries.items))

\* sort_values(["index", "code", "date"], na_position="last")
FinancialSortKey(row) ==
    <<Rank(row.index), Rank(row.code),
      IF IsNone(row.date) THEN 1 ELSE 0,
      IF IsNone(row.date) THEN 0 ELSE row.date.val>>

SameKey(a, b) == a.index = b.index /\ a.code = b.code

\* drop_duplicates(subset=["index", "code"], keep="last")
drop_duplicates(rows) ==
    TakeRows(rows,
             {i \in DOMAIN rows :
                 ~ \E j \in DOMAIN rows : j > i /\ SameKey(rows[i], rows[j])},
             Len(rows))

\* the financial frame after deduplication (lines 137-148)
Deduplicate(rows) == drop_duplicates(SortValues(rows, FinancialSortKey))

\* the fields a constituent row gets from the financial frame in the left join
NoMatch ==
    [date |-> None, pbr |-> None, roe |-> None, dy |-> None,
     market_cap |-> None, weight |-> None]

MatchOf(row, fin) ==
    LET hits == {j \in DOMAIN fin : SameKey(row, fin[j])}
    IN IF hits = {} THEN <<NoMatch>>
       ELSE [k \in 1..Cardinality(hits) |->
                fin[CHOOSE j \in hits :
                        Cardinality({h \in hits : h < j}) = k - 1]]

\* constituents_df.merge(financials_df, on=["index","code"], how="left",
\* suffixes=("", "_fin")): one row per match, in the order of the left rows
Merge(cons, fin) ==
    Flatten([i \in DOMAIN cons |->
        LET m == MatchOf(cons[i], fin)
        IN [k \in DOMAIN m |->
               [index      |-> cons[i].index,
                code       |-> cons[i].code,
                name       |-> cons[i].name,
                sector     |-> cons[i].sector,
                weight     |-> cons[i].weight,
                weight_fin |-> m[k].weight,
                date       |-> m[k].date,
                pbr        |-> m[k].pbr,
                roe        |-> m[k].roe,
                dy         |-> m[k].dy,
                market_cap |-> m[k].market_cap]]])

\* merged["weight"].fillna(merged["weight_fin"]) (lines 158-160)
ResolveWeight(weight, weight_fin) == fillna(weight, weight_fin)

\* CanonicalRow with pbr left out of the columns that are coerced
CanonicalRowPbrKept(m) ==
    [index      |-> m.index,
     code       |-> m.code,
     name       |-> m.name,
     sector     |-> m.sector,
     weight     |-> to_numeric(ResolveWeight(m.weight, m.weight_fin)),
     date       |-> strftime(m.date),
     pbr        |-> m.pbr,
     roe        |-> to_numeric(m.roe),
     dy         |-> to_numeric(m.dy),
     market_cap |-> to_numeric(m.market_cap)]

\* lines 156-168 on one merged row
CanonicalRow(m) ==
    [index      |-> m.index,
     code       |-> m.code,
     name       |-> m.name,
     sector     |-> m.sector,
     weight     |-> to_numeric(ResolveWeight(m.weight, m.weight_fin)),
     date       |-> strftime(m.date),
     pbr        |-> to_numeric(m.pbr),
     roe        |-> to_numeric(m.roe),
     dy         |-> to_numeric(m.dy),
     market_cap |-> to_numeric(m.market_cap)]

\* sort_values(["index", "code"])
CanonicalSortKey(row) == <<Rank(row.index), Rank(row.code)>>

\* _load_yaml: the parsed document, unless there is no file
_load_yaml(path) ==
    IF path.kind = "missing"
    THEN [status |-> "FileNotFoundError", doc |-> Null]
    ELSE [status |-> "ok", doc |-> path]

\* build_canonical on the two files, each given as the document it parses
\* to. A financials file that does not exist is read as None. A financial
\* frame without rows has no columns, and merging on columns it lacks raises
\* KeyError.
build_canonical(constituents_path, financials_path) ==
    LET constituents_raw == _load_yaml(constituents_path)
        financials_raw  == IF financials_path.kind # "missing"
                           THEN _load_yaml(financials_path).doc ELSE Null
        constituents_df == _normalize_constituents(constituents_raw.doc)
        financials_df   == _normalize_financials(financials_raw)
    IN IF constituents_raw.status # "ok" THEN Raise(constituents_raw.status)
       ELSE IF constituents_df.status # "ok" THEN constituents_df
       ELSE IF financials_df.status # "ok" THEN financials_df
       ELSE IF financials_df.rows = <<>> THEN Raise("KeyError")
       ELSE LET fin    == Deduplicate(financials_df.rows)
                merged == Merge(constituents_df.rows, fin)
                coerced == [i \in DOMAIN merged |-> CanonicalRow(merged[i])]
            IN Frame(SortValues(coerced, CanonicalSortKey))

-----------------------------------------------------------------------------
(* analysis/pbr_stats.py, analysis/roe_stats.py *)

\* 1.0 in tenths
One == 10

\* the index names of the groups of dataset.groupby("index")
GroupNames(rows) == {rows[i].index : i \in DOMAIN rows}

\* subset[column] of one group after pd.to_numeric(errors="coerce"), in row order
RECURSIVE CoercedColumn(_, _, _)
CoercedColumn(rows, index_name, column) ==
    IF rows = <<>> THEN <<>>
    ELSE LET rest == CoercedColumn(Tail(rows), index_name, column)
         IN IF Head(rows).index = index_name
            THEN <<to_numeric(Head(rows)[column])>> \o rest
            ELSE rest

\* Series.dropna(): the numbers of the series
RECURSIVE dropna(_)
dropna(series) ==
    IF series = <<>> THEN <<>>
    ELSE IF IsNone(Head(series)) THEN dropna(Tail(series))
         ELSE <<Head(series).val>> \o dropna(Tail(series))

RECURSIVE Sum(_)
Sum(s) == IF s = <<>> THEN 0 ELSE Head(s) + Sum(Tail(s))

NumberKey(v) == <<v>>
Sorted(series) == SortValues(series, NumberKey)

\* Series.median(): the middle value, or the mean of the two middle values
Median(series) ==
    LET x == Sorted(series)
        n == Len(x)
    IN IF n = 0 THEN NaN
       ELSE IF n % 2 = 1 THEN Rat(x[(n + 1) \div 2], 1)
       ELSE Rat(x[n \div 2] + x[n \div 2 + 1], 2)

\* Series.quantile(k/4) with linear interpolation
Quantile(series, k) ==
    LET x  == Sorted(series)
        h  == (Len(x) - 1) * k
        lo == h \div 4 + 1
        r  == h % 4
    IN IF x = <<>> THEN NaN
       ELSE IF r = 0 THEN Rat(4 * x[lo], 4)
       ELSE Rat(4 * x[lo] + r * (x[lo + 1] - x[lo]), 4)

\* Count without the dropna()
CountAll(series) == Len(series)

\* number of observations of the group (series.count() after dropna)
Count(series) == Len(dropna(series))

\* (series < 1.0).sum() / count
Lt1Ratio(series) ==
    LET s == dropna(series)
    IN Div(Cardinality({i \in DOMAIN s : s[i] < One}), Len(s))

\* Series.mean()
Mean(series) == LET s == dropna(series) IN Div(Sum(s), Len(s))

\* the test "count == 0" with the wrong comparison
NoObservationsMissed(series) == Count(series) < 0

\* if count == 0
NoObservations(series) == Count(series) = 0

Metrics(doc) == [status |-> "ok", doc |-> doc]
NoMetrics(e) == [status |-> e, doc |-> <<>>]

compute_pbr_stats(ds) ==
    IF "index" \notin ds.columns THEN NoMetrics("ValueError")
    ELSE IF "pbr" \notin ds.columns THEN NoMetrics("ValueError")
    ELSE LET names == GroupNames(ds.rows)
             series(n) == CoercedColumn(ds.rows, n, "pbr")
         IN Metrics(
              [lt1    |-> [n \in names |-> IF NoObservations(series(n)) THEN None
                                           ELSE Lt1Ratio(series(n))],
               mean   |-> [n \in names |-> IF NoObservations(series(n)) THEN None
                                           ELSE Mean(series(n))],
               median |-> [n \in names |-> IF NoObservations(series(n)) THEN None
                                           ELSE Median(dropna(series(n)))],
               count  |-> [n \in names |-> Num(Count(series(n)))]])

\* QUANTILES = (0.25, 0.5, 0.75) as quarters, keyed by str(int(q * 100))
QUANTILES == {"25", "50", "75"}
Quarters(q) == IF q = "25" THEN 1 ELSE IF q = "50" THEN 2 ELSE 3

compute_roe_stats(ds) ==
    IF "index" \notin ds.columns THEN NoMetrics("ValueError")
    ELSE IF "roe" \notin ds.columns THEN NoMetrics("ValueError")
    ELSE LET names == GroupNames(ds.rows)
             series(n) == CoercedColumn(ds.rows, n, "roe")
         IN Metrics(
              [median    |-> [n \in names |-> IF NoObservations(series(n)) THEN None
                                              ELSE Median(dropna(series(n)))],
               quantiles |-> [q \in QUANTILES |->
                                [n \in names |->
                                    IF NoObservations(series(n)) THEN None
                                    ELSE Quantile(dropna(series(n)), Quarters(q))]],
               count     |-> [n \in names |-> Num(Count(series(n)))]])

-----------------------------------------------------------------------------
(* analysis/yield_stats.py: the module that mirrors the PBR module on the    *)
(* dividend-yield column, reporting mean, median and count                   *)

compute_yield_stats(ds) ==
    IF "index" \notin ds.columns THEN NoMetrics("ValueError")
    ELSE IF "dy" \notin ds.columns THEN NoMetrics("ValueError")
    ELSE LET names == GroupNames(ds.rows)
             series(n) == CoercedColumn(ds.rows, n, "dy")
         IN Metrics(
              [mean   |-> [n \in names |-> IF NoObservations(series(n)) THEN None
                                           ELSE Mean(series(n))],
               median |-> [n \in names |-> IF NoObservations(series(n)) THEN None
                                           ELSE Median(dropna(series(n)))],
               count  |-> [n \in names |-> Num(Count(series(n)))]])

-----------------------------------------------------------------------------
(* analysis/sector_hhi.py *)

\* head(10)
TOP_N == 10

\* the rows of one group, in table order
RECURSIVE Subset(_, _)
Subset(rows, index_name) ==
    IF rows = <<>> THEN <<>>
    ELSE IF Head(rows).index = index_name
         THEN <<Head(rows)>> \o Subset(Tail(rows), index_name)
         ELSE Subset(Tail(rows), index_name)

\* pd.Series(1.0, index=subset.index)
EqualWeights(subset) == [i \in DOMAIN subset |-> 1]

\* lines 23-27: the stated weights with missing ones as zero, or all ones
StatedWeights(subset) ==
    LET weights == [i \in DOMAIN subset |-> to_numeric(subset[i].weight)]
    IN IF \E i \in DOMAIN weights : ~IsNone(weights[i])
       THEN [i \in DOMAIN weights |-> fillna(weights[i], Num(0)).val]
       ELSE EqualWeights(subset)

\* FinalWeights without the fallback for a non-positive total
FinalWeightsNoFallback(subset) == StatedWeights(subset)

\* lines 29-32: the weights that are divided by their total
FinalWeights(subset) ==
    IF Sum(StatedWeights(subset)) <= 0 THEN EqualWeights(subset)
    ELSE StatedWeights(subset)

_resolve_weights(subset) ==
    LET weights == FinalWeights(subset)
        total   == Sum(weights)
    IN [i \in DOMAIN weights |-> Div(weights[i], total)]

RECURSIVE RatSum(_)
RatSum(s) == IF s = <<>> THEN Num(0) ELSE RatAdd(Head(s), RatSum(Tail(s)))

\* subset["sector"].fillna("Unknown")
SectorOf(row) == IF row.sector = ABSENT THEN "Unknown" ELSE row.sector

\* weights.groupby(sector_series).sum() for one sector
SectorWeight(subset, weights, sector) ==
    RatSum(TakeRows(weights,
                    {i \in DOMAIN subset : SectorOf(subset[i]) = sector},
                    Len(subset)))

RECURSIVE SumOfSquares(_, _, _)
SumOfSquares(subset, weights, sectors) ==
    IF sectors = {} THEN Num(0)
    ELSE LET s == CHOOSE x \in sectors : TRUE
             w == SectorWeight(subset, weights, s)
         IN RatAdd(RatMul(w, w), SumOfSquares(subset, weights, sectors \ {s}))

\* HhiValue over the securities, their weights not summed by sector
HhiValueBySecurity(subset) ==
    LET weights == _resolve_weights(subset)
    IN RatSum([i \in DOMAIN weights |-> RatMul(weights[i], weights[i])])

HhiValue(subset) ==
    SumOfSquares(subset, _resolve_weights(subset),
                 {SectorOf(subset[i]) : i \in DOMAIN subset})

\* weights.sort_values(ascending=False).head(10).sum()
DescendingKey(w) == <<0 - w.val>>
Top10Value(subset) ==
    LET sorted == SortValues(_resolve_weights(subset), DescendingKey)
    IN RatSum(SubSeq(sorted, 1, IF Len(sorted) < TOP_N THEN Len(sorted) ELSE TOP_N))

\* subset.get("weight") is None without the column, and None has no notna()
compute_concentration_metrics(ds) ==
    IF "index" \notin ds.columns THEN NoMetrics("ValueError")
    ELSE IF "sector" \notin ds.columns THEN NoMetrics("ValueError")
    ELSE IF "weight" \notin ds.columns /\ ds.rows # <<>>
         THEN NoMetrics("AttributeError")
    ELSE LET names == GroupNames(ds.rows)
         IN Metrics(
              [hhi          |-> [n \in names |-> HhiValue(Subset(ds.rows, n))],
               top10_weight |-> [n \in names |-> Top10Value(Subset(ds.rows, n))],
               constituents |-> [n \in names |-> Num(Len(Subset(ds.rows, n)))]])

-----------------------------------------------------------------------------
(* render/common.py *)

PRIMARY == "yomiuri333"
BENCHMARK == "topix"

\* load_metrics: the document of the file, or {} when there is none
EmptyDoc == <<>>
load_metrics(outcome) == IF outcome.status = "ok" THEN outcome.doc ELSE EmptyDoc

\* safe_get(data, key, index_name); "is None" is IsNone of the result
safe_get(data, key, index_name) ==
    IF key \notin DOMAIN data THEN None
    ELSE IF index_name \notin DOMAIN data[key] THEN None
    ELSE data[key][index_name]

\* one bullet: the metric it mentions and which sentence it is
Bullet(family, phrase) == [family |-> family, phrase |-> phrase]

\* PbrBullet with the comparison the wrong way round
PbrBulletInverted(pbr) ==
    LET y_ratio == safe_get(pbr, "lt1", PRIMARY)
        t_ratio == safe_get(pbr, "lt1", BENCHMARK)
    IN IF ~IsNone(y_ratio) /\ ~IsNone(t_ratio)
       THEN IF RatLess(y_ratio, t_ratio)
            THEN [bucket |-> "strengths", bullet |-> Bullet("PBR", "higher")]
            ELSE [bucket |-> "weaknesses", bullet |-> Bullet("PBR", "lower")]
       ELSE [bucket |-> "cautions", bullet |-> Bullet("PBR", "missing")]

\* lines 118-135
PbrBullet(pbr) ==
    LET y_ratio == safe_get(pbr, "lt1", PRIMARY)
        t_ratio == safe_get(pbr, "lt1", BENCHMARK)
    IN IF ~IsNone(y_ratio) /\ ~IsNone(t_ratio)
       THEN IF RatLess(t_ratio, y_ratio)
            THEN [bucket |-> "strengths", bullet |-> Bullet("PBR", "higher")]
            ELSE [bucket |-> "weaknesses", bullet |-> Bullet("PBR", "lower")]
       ELSE [bucket |-> "cautions", bullet |-> Bullet("PBR", "missing")]

\* RoeBullet that tests only the primary value and reads a missing
\* benchmark as zero
RoeBulletPrimaryOnly(roe) ==
    LET y_roe == safe_get(roe, "median", PRIMARY)
        t_roe == safe_get(roe, "median", BENCHMARK)
    IN IF ~IsNone(y_roe)
       THEN IF ~RatLess(y_roe, t_roe)
            THEN [bucket |-> "strengths", bullet |-> Bullet("ROE", "not_lower")]
            ELSE [bucket |-> "weaknesses", bullet |-> Bullet("ROE", "lower")]
       ELSE [bucket |-> "cautions", bullet |-> Bullet("ROE", "missing")]

\* lines 137-152
RoeBullet(roe) ==
    LET y_roe == safe_get(roe, "median", PRIMARY)
        t_roe == safe_get(roe, "median", BENCHMARK)
    IN IF ~IsNone(y_roe) /\ ~IsNone(t_roe)
       THEN IF ~RatLess(y_roe, t_roe)
            THEN [bucket |-> "strengths", bullet |-> Bullet("ROE", "not_lower")]
            ELSE [bucket |-> "weaknesses", bullet |-> Bullet("ROE", "lower")]
       ELSE [bucket |-> "cautions", bullet |-> Bullet("ROE", "missing")]

\* lines 154-171
DyBullet(dy) ==
    LET y_dy == safe_get(dy, "mean", PRIMARY)
        t_dy == safe_get(dy, "mean", BENCHMARK)
    IN IF ~IsNone(y_dy) /\ ~IsNone(t_dy)
       THEN IF ~RatLess(y_dy, t_dy)
            THEN [bucket |-> "strengths", bullet |-> Bullet("DY", "not_lower")]
            ELSE [bucket |-> "weaknesses", bullet |-> Bullet("DY", "lower")]
       ELSE [bucket |-> "cautions", bullet |-> Bullet("DY", "missing")]

\* lines 173-187
HhiBullet(hhi) ==
    LET y_hhi == safe_get(hhi, "hhi", PRIMARY)
        t_hhi == safe_get(hhi, "hhi", BENCHMARK)
    IN IF ~IsNone(y_hhi)
       THEN IF ~IsNone(t_hhi) /\ RatLess(t_hhi, y_hhi)
            THEN [bucket |-> "weaknesses", bullet |-> Bullet("HHI", "higher")]
            ELSE [bucket |-> "strengths", bullet |-> Bullet("HHI", "diversified")]
       ELSE [bucket |-> "cautions", bullet |-> Bullet("HHI", "missing")]

\* lines 189-193
Top10Bullets(hhi) ==
    IF IsNone(safe_get(hhi, "top10_weight", PRIMARY))
    THEN <<[bucket |-> "cautions", bullet |-> Bullet("TOP10", "missing")]>>
    ELSE <<>>

\* the bullets appended to one bucket, in the order of the appends
RECURSIVE BucketOf(_, _)
BucketOf(placed, bucket) ==
    IF placed = <<>> THEN <<>>
    ELSE IF Head(placed).bucket = bucket
         THEN <<Head(placed).bullet>> \o BucketOf(Tail(placed), bucket)
         ELSE BucketOf(Tail(placed), bucket)

\* derive_logic_summary with an HHI comparison that has no branch for a
\* missing benchmark
derive_logic_summary_no_else(pbr, roe, dy, hhi) ==
    LET placed == <<PbrBullet(pbr), RoeBullet(roe), DyBullet(dy)>>
                  \o (IF IsNone(safe_get(hhi, "hhi", BENCHMARK))
                         /\ ~IsNone(safe_get(hhi, "hhi", PRIMARY))
                      THEN <<>> ELSE <<HhiBullet(hhi)>>)
                  \o Top10Bullets(hhi)
    IN [strengths  |-> BucketOf(placed, "strengths"),
        weaknesses |-> BucketOf(placed, "weaknesses"),
        cautions   |-> BucketOf(placed, "cautions")]

derive_logic_summary(pbr, roe, dy, hhi) ==
    LET placed == <<PbrBullet(pbr), RoeBullet(roe), DyBullet(dy), HhiBullet(hhi)>>
                  \o Top10Bullets(hhi)
    IN [strengths  |-> BucketOf(placed, "strengths"),
        weaknesses |-> BucketOf(placed, "weaknesses"),
        cautions   |-> BucketOf(placed, "cautions")]

-----------------------------------------------------------------------------
(* render/build_site.py *)

\* one sentence of build_insights: the family it opens with and its phrasing
Insight(family, phrase) == [family |-> family, phrase |-> phrase]

\* lines 47-57
ValuationInsight(pbr) ==
    LET y_ratio == safe_get(pbr, "lt1", PRIMARY)
        t_ratio == safe_get(pbr, "lt1", BENCHMARK)
    IN IF ~IsNone(y_ratio) /\ ~IsNone(t_ratio)
       THEN IF ~RatLess(y_ratio, t_ratio)
            THEN Insight("valuation", "above")
            ELSE Insight("valuation", "below")
       ELSE Insight("valuation", "insufficient")

\* lines 59-69
ProfitabilityInsight(roe) ==
    LET y_roe == safe_get(roe, "median", PRIMARY)
        t_roe == safe_get(roe, "median", BENCHMARK)
    IN IF ~IsNone(y_roe) /\ ~IsNone(t_roe)
       THEN IF RatLess(y_roe, t_roe)
            THEN Insight("profitability", "lower")
            ELSE Insight("profitability", "higher")
       ELSE Insight("profitability", "insufficient")

\* lines 71-81
IncomeInsight(dy) ==
    LET y_dy == safe_get(dy, "mean", PRIMARY)
        t_dy == safe_get(dy, "mean", BENCHMARK)
    IN IF ~IsNone(y_dy) /\ ~IsNone(t_dy)
       THEN IF ~RatLess(y_dy, t_dy)
            THEN Insight("income", "higher")
            ELSE Insight("income", "lower")
       ELSE Insight("income", "insufficient")

\* ConcentrationInsight that also asks for the benchmark value
ConcentrationInsightBoth(hhi) ==
    LET y_hhi == safe_get(hhi, "hhi", PRIMARY)
        t_hhi == safe_get(hhi, "hhi", BENCHMARK)
    IN IF ~IsNone(y_hhi) /\ ~IsNone(t_hhi)
       THEN Insight("concentration", "level")
       ELSE Insight("concentration", "insufficient")

\* lines 83-90: only the primary value is read, and there is one phrasing
ConcentrationInsight(hhi) ==
    LET y_hhi == safe_get(hhi, "hhi", PRIMARY)
    IN IF ~IsNone(y_hhi)
       THEN Insight("concentration", "level")
       ELSE Insight("concentration", "insufficient")

build_insights(pbr, roe, dy, hhi) ==
    <<ValuationInsight(pbr), ProfitabilityInsight(roe), IncomeInsight(dy),
      ConcentrationInsight(hhi)>>

-----------------------------------------------------------------------------
(* codex/codex_runner.py *)

\* a str: the pieces that "\n".join puts together
Text(parts) == [kind |-> "str", parts |-> parts]
NoOutput == [kind |-> "none", parts |-> <<>>]
\* an exception that leaves _call_openai
Escapes == [kind |-> "error", parts |-> <<>>]

\* the fixed text written when there is nothing to write
PLACEHOLDER == Text(<<"## Codex refresh unavailable">>)

\* what the service call does: it raises, or returns an object with an
\* output_text, with a list of choices, or with neither
Raises == [kind |-> "raises", output_text |-> "", choices |-> <<>>]
WithOutputText(s) == [kind |-> "output_text", output_text |-> s, choices |-> <<>>]
WithChoices(c) == [kind |-> "choices", output_text |-> "", choices |-> c]
Opaque == [kind |-> "other", output_text |-> "", choices |-> <<>>]

\* the message contents that are kept: those that are not empty
RECURSIVE Contents(_)
Contents(choices) ==
    IF choices = <<>> THEN <<>>
    ELSE IF Head(choices) = "" THEN Contents(Tail(choices))
    ELSE <<Head(choices)>> \o Contents(Tail(choices))

\* bool(output) of main()
Truthy(output) ==
    output.kind = "str" /\ \E i \in DOMAIN output.parts : output.parts[i] # ""

\* _call_openai that takes any key, a missing one included
_call_openai_any_key(env) ==
    IF env.openai # "installed" THEN NoOutput
    ELSE IF env.client = "raises" THEN Escapes
    ELSE IF env.response.kind = "raises" THEN NoOutput
    ELSE IF env.response.kind = "output_text"
    THEN Text(<<env.response.output_text>>)
    ELSE IF env.response.kind = "choices" /\ Contents(env.response.choices) # <<>>
    THEN Text(Contents(env.response.choices))
    ELSE Text(<<"repr">>)

\* _call_openai in the environment env: the key of the process, whether the
\* client library can be imported, whether OpenAI() returns a client, and
\* what the service call does. The client is made outside the try block.
_call_openai(env) ==
    IF env.api_key \in {"unset", ""} THEN NoOutput
    ELSE IF env.openai # "installed" THEN NoOutput
    ELSE IF env.client = "raises" THEN Escapes
    ELSE IF env.response.kind = "raises" THEN NoOutput
    ELSE IF env.response.kind = "output_text"
    THEN Text(<<env.response.output_text>>)
    ELSE IF env.response.kind = "choices" /\ Contents(env.response.choices) # <<>>
    THEN Text(Contents(env.response.choices))
    ELSE Text(<<"repr">>)

-----------------------------------------------------------------------------
(* utils/io.py *)

\* the columns of the canonical table
CANONICAL_COLUMNS ==
    {"index", "code", "name", "sector", "weight", "date", "pbr", "roe", "dy",
     "market_cap"}

\* ingest write_output at time now: a YAML file carries the time it was
\* generated at next to its records, a CSV file (any other suffix) the table
\* alone
write_output(rows, suffix, now) ==
    IF suffix = "yaml"
    THEN [file |-> "yaml", generated_at |-> now, columns |-> CANONICAL_COLUMNS,
          rows |-> rows]
    ELSE [file |-> "csv", generated_at |-> 0, columns |-> CANONICAL_COLUMNS,
          rows |-> rows]

\* the keys of the metrics documents in the order the modules insert them:
\* the statistics as the dict literals list them, the groups as groupby
\* yields them
KEY_ORDER == <<"lt1", "mean", "median", "quantiles", "hhi", "top10_weight",
               "count", "constituents", "25", "50", "75", "records", "topix",
               "yomiuri333">>
Position(key) == CHOOSE i \in DOMAIN KEY_ORDER : KEY_ORDER[i] = key

\* a value that is a mapping, not a number or null
IsMapping(data) == "tag" \notin DOMAIN data

\* keys, ascending by Place
RECURSIVE Ordered(_, _)
Ordered(keys, Place) ==
    IF keys = {} THEN <<>>
    ELSE LET k == CHOOSE x \in keys : \A y \in keys : Place[x] <= Place[y]
         IN <<k>> \o Ordered(keys \ {k}, Place)

\* the text of a mapping: its members, one after the other, each value as
\* a text of its own
RECURSIVE Serialize(_, _)
Serialize(data, Place) ==
    IF ~IsMapping(data) THEN data
    ELSE LET keys == Ordered(DOMAIN data, Place)
         IN [members |->
                [i \in DOMAIN keys |->
                    [key |-> keys[i], value |-> Serialize(data[keys[i]], Place)]]]

\* dump_json without sort_keys: the members in insertion order
dump_json_unsorted(data) ==
    Serialize(data, [k \in {KEY_ORDER[i] : i \in DOMAIN KEY_ORDER} |-> Position(k)])

\* dump_json: json.dumps(data, indent=2, sort_keys=True)
dump_json(data) ==
    Serialize(data, [k \in {Lexicon[i] : i \in DOMAIN Lexicon} |-> Rank(k)])

\* load_dataframe without the test that the file exists
load_dataframe_unchecked(path) ==
    IF path.file = "csv"
    THEN [status |-> "ok", columns |-> path.columns, rows |-> path.rows]
    ELSE IF path.file = "yaml"
    THEN [status |-> "ok",
          columns |-> IF path.rows = <<>> THEN {} ELSE path.columns,
          rows |-> path.rows]
    ELSE [status |-> "ValueError", columns |-> {}, rows |-> <<>>]

\* load_dataframe on a dataset file: the frame read from a CSV file or from
\* the "records" of a YAML file, or the error raised for a missing file and
\* for an extension it does not read
load_dataframe(path) ==
    IF path.file = "missing"
    THEN [status |-> "FileNotFoundError", columns |-> {}, rows |-> <<>>]
    ELSE IF path.file = "csv"
    THEN [status |-> "ok", columns |-> path.columns, rows |-> path.rows]
    ELSE IF path.file = "yaml"
    THEN [status |-> "ok",
          columns |-> IF path.rows = <<>> THEN {} ELSE path.columns,
          rows |-> path.rows]
    ELSE [status |-> "ValueError", columns |-> {}, rows |-> <<>>]

-----------------------------------------------------------------------------
(* State before a stage has run *)

NotBuilt == [status |-> "none", rows |-> <<>>]
NotComputed == [status |-> "none", doc |-> <<>>]
NotDerived == [strengths |-> <<>>, weaknesses |-> <<>>, cautions |-> <<>>]
NoDocument == Null
NoDataset == [file |-> "none", generated_at |-> 0, columns |-> {}, rows |-> <<>>]
NoInsights == <<>>
NoRun == [prompt |-> "missing", api_key |-> "unset", openai |-> "missing",
          client |-> "raises", response |-> Raises]
NotWritten == NoOutput

-----------------------------------------------------------------------------
(* Specification Spec: the ingest stage on bounded raw documents *)

\* mapping-shaped constituent entries
ConstituentEntries ==
    [kind : {"entry"}, index : {ABSENT, "topix"}, code : {"1001", "2002"},
     name : {"Alpha"}, sector : {"Materials"}, weight : {None, Num(5), Str}]

\* constituent entries of a grouped document carry no index of their own
GroupedEntries == {e \in ConstituentEntries : e.index = ABSENT}

\* mapping-shaped financial entries
FinancialEntrySet ==
    [kind : {"entry"}, index : {ABSENT, "topix"}, code : {"1001"},
     date : {None, Date(1), Date(2)}, pbr : {Num(8)}, roe : {Num(50)},
     dy : {Num(26)}, market_cap : {None}, weight : {None, Num(7)}]

\* what a group of a grouped document may hold in place of a list of
\* entries: nothing, a scalar, or a mapping whose "records" is a scalar
NoLists == {Null, Scalar, RecordsDoc(Scalar)}

\* a constituents document with n entries: a flat list, the two groups of
\* a mapping of index name to list, a mapping one group of which holds no
\* list, or a mapping with a "records" key; with none, also a document that
\* is no list
ConstituentDocs(n) ==
    {ListDoc(s) : s \in [1..n -> ConstituentEntries \cup {Scalar}]}
    \cup
    UNION {{DictDoc(<<[key |-> "yomiuri333", value |-> ListDoc(a)],
                      [key |-> "topix", value |-> ListDoc(b)]>>) :
               a \in [1..k -> GroupedEntries \cup {Scalar}],
               b \in [1..(n - k) -> GroupedEntries \cup {Scalar}]} : k \in 0..n}
    \cup
    {DictDoc(<<[key |-> "yomiuri333", value |-> g],
               [key |-> "topix", value |-> ListDoc(b)]>>) :
        g \in NoLists, b \in [1..n -> GroupedEntries \cup {Scalar}]}
    \cup
    {RecordsDoc(ListDoc(b)) : b \in [1..n -> GroupedEntries \cup {Scalar}]}
    \cup (IF n = 0 THEN {Null, Scalar, DictDoc(<<>>)} ELSE {})

\* financial entries of a grouped document carry no index of their own
GroupedFinancials == {e \in FinancialEntrySet : e.index = ABSENT}

\* a financials document with n entries: a flat list, a mapping with a
\* "records" key, or a mapping of index name to list, one group of which may
\* hold no list; with none, also the empty document and a document that is
\* no list
FinancialDocs(n) ==
    {ListDoc(s) : s \in [1..n -> FinancialEntrySet \cup {Scalar}]}
    \cup
    {RecordsDoc(ListDoc(s)) : s \in [1..n -> GroupedFinancials \cup {Scalar}]}
    \cup
    {DictDoc(<<[key |-> "topix", value |-> g],
               [key |-> "yomiuri333", value |-> ListDoc(s)]>>) :
        g \in {ListDoc(<<>>), Scalar},
        s \in [1..n -> GroupedFinancials \cup {Scalar}]}
    \cup (IF n = 0 THEN {Null, Scalar, RecordsDoc(Scalar)} ELSE {})

\* with no entries, there may also be no file
MissingWhen(none) == IF none THEN {MissingFile} ELSE {}

Init ==
    /\ pc = "ingest"
    /\ \E c \in 0..MaxCons, f \in 0..MaxFins :
          /\ c + f <= MaxRows
          /\ constituents \in ConstituentDocs(c) \cup MissingWhen(c = 0)
          /\ financials \in FinancialDocs(f) \cup MissingWhen(f = 0)
    /\ canonical = NotBuilt
    /\ dataset = NoDataset
    /\ pbr_metrics = NotComputed
    /\ roe_metrics = NotComputed
    /\ dy_metrics = NotComputed
    /\ hhi_metrics = NotComputed
    /\ resolved = <<>>
    /\ logic = NotDerived
    /\ insights = NoInsights
    /\ runs = <<>>
    /\ codex = NoRun
    /\ notes = NotWritten

\* the time of the run under way
Now == Len(runs) + 1

\* ingest main(): build_canonical, then write_output unless it raised
BuildCanonical ==
    /\ pc = "ingest"
    /\ canonical' = build_canonical(constituents, financials)
    /\ pc' = IF canonical'.status = "ok" THEN "written" ELSE "failed"
    /\ \E suffix \in {"csv", "yaml"} :
          dataset' = IF canonical'.status = "ok"
                     THEN write_output(canonical'.rows, suffix, Now)
                     ELSE dataset
    /\ UNCHANGED <<constituents, financials, pbr_metrics, roe_metrics,
                   dy_metrics, hhi_metrics, resolved, logic,
                   insights, codex, notes, runs>>

Next == BuildCanonical

Spec == Init /\ [][Next]_vars

-----------------------------------------------------------------------------
(* Specification SpecStats: the PBR and ROE modules on a bounded table, then *)
(* the narrative derivation on the metrics they wrote                        *)

COLUMNS == {"index", "sector", "weight", "pbr", "roe"}

\* a CSV file holding the table
Table(rows) ==
    [file |-> "csv", generated_at |-> 0, columns |-> COLUMNS, rows |-> rows]

\* the table without one of its columns
Without(table, column) ==
    [table EXCEPT
        !.columns = @ \ {column},
        !.rows = [i \in DOMAIN @ |->
                     [@[i] EXCEPT ![column] =
                         IF column \in {"index", "sector"} THEN ABSENT ELSE None]]]

\* a dataset path at which there is no file
MissingDataset ==
    [file |-> "missing", generated_at |-> 0, columns |-> {}, rows |-> <<>>]

\* a dataset file with an extension load_dataframe does not read
Unsupported == [file |-> "txt", generated_at |-> 0, columns |-> {}, rows |-> <<>>]

StatsRows ==
    [index : {PRIMARY, BENCHMARK}, sector : {"Materials"}, weight : {None},
     pbr : {Str, Num(8), Num(12)}, roe : {None, Num(36), Num(50)}]

InitStats ==
    /\ pc = "pbr"
    /\ dataset \in {Table(s) : s \in BSeq(StatsRows, MaxTable)}
                    \cup {Without(Table(s), c) :
                             s \in BSeq(StatsRows, MaxTable),
                             c \in {"index", "pbr", "roe"}}
                    \cup {MissingDataset, Unsupported}
    /\ constituents = NoDocument
    /\ financials = NoDocument
    /\ canonical = NotBuilt
    /\ pbr_metrics = NotComputed
    /\ roe_metrics = NotComputed
    /\ dy_metrics = NotComputed
    /\ hhi_metrics = NotComputed
    /\ resolved = <<>>
    /\ logic = NotDerived
    /\ insights = NoInsights
    /\ runs = <<>>
    /\ codex = NoRun
    /\ notes = NotWritten

\* pbr_stats main()
PbrStats ==
    /\ pc = "pbr"
    /\ pbr_metrics' = LET df == load_dataframe(dataset)
                       IN IF df.status # "ok" THEN NoMetrics(df.status)
                          ELSE compute_pbr_stats(df)
    /\ pc' = "roe"
    /\ UNCHANGED <<constituents, financials, canonical, dataset, roe_metrics,
                   dy_metrics, hhi_metrics, resolved, logic,
                   insights, codex, notes, runs>>

\* roe_stats main()
RoeStats ==
    /\ pc = "roe"
    /\ roe_metrics' = LET df == load_dataframe(dataset)
                       IN IF df.status # "ok" THEN NoMetrics(df.status)
                          ELSE compute_roe_stats(df)
    /\ pc' = "render"
    /\ UNCHANGED <<constituents, financials, canonical, dataset, pbr_metrics,
                   dy_metrics, hhi_metrics, resolved, logic,
                   insights, codex, notes, runs>>

\* the renderer: load_metrics on the four files, then derive_logic_summary
\* and build_insights
DeriveLogic ==
    /\ pc = "render"
    /\ logic' = derive_logic_summary(load_metrics(pbr_metrics),
                                     load_metrics(roe_metrics),
                                     load_metrics(dy_metrics),
                                     load_metrics(hhi_metrics))
    /\ insights' = build_insights(load_metrics(pbr_metrics),
                                  load_metrics(roe_metrics),
                                  load_metrics(dy_metrics),
                                  load_metrics(hhi_metrics))
    /\ pc' = "done"
    /\ UNCHANGED <<constituents, financials, canonical, dataset, pbr_metrics,
                   roe_metrics, dy_metrics, hhi_metrics, resolved, codex, notes, runs>>

NextStats == PbrStats \/ RoeStats \/ DeriveLogic

SpecStats == InitStats /\ [][NextStats]_vars

-----------------------------------------------------------------------------
(* Specification SpecHhi: the concentration module on a bounded table *)

HoldingRows ==
    [index : {PRIMARY, BENCHMARK}, sector : {"Materials", "Industrials", ABSENT},
     weight : {None, Num(0 - 5), Num(0), Num(5)}, pbr : {None}, roe : {None}]

\* tables of one group with more rows than head(10) keeps
LongTables ==
    {[i \in 1..(TOP_N + 1) |->
         [index |-> PRIMARY, sector |-> IF i = 1 THEN s ELSE "Materials",
          weight |-> IF i = 1 THEN w ELSE IF i = 2 THEN v ELSE Num(5),
          pbr |-> None, roe |-> None]] :
       s \in {"Materials", "Industrials", ABSENT},
       w \in {None, Num(0 - 5), Num(0), Num(5)},
       v \in {None, Num(0 - 5), Num(5)}}

InitHhi ==
    /\ pc = "hhi"
    /\ dataset \in {Table(s) : s \in BSeq(HoldingRows, MaxHoldings) \cup LongTables}
                    \cup {Without(Table(s), c) :
                             s \in BSeq(HoldingRows, MaxHoldings),
                             c \in {"index", "sector", "weight"}}
                    \cup {MissingDataset, Unsupported}
    /\ constituents = NoDocument
    /\ financials = NoDocument
    /\ canonical = NotBuilt
    /\ pbr_metrics = NotComputed
    /\ roe_metrics = NotComputed
    /\ dy_metrics = NotComputed
    /\ hhi_metrics = NotComputed
    /\ resolved = <<>>
    /\ logic = NotDerived
    /\ insights = NoInsights
    /\ runs = <<>>
    /\ codex = NoRun
    /\ notes = NotWritten

\* sector_hhi main(); resolved records what _resolve_weights returned per group
ConcentrationMetrics ==
    /\ pc = "hhi"
    /\ hhi_metrics' = LET df == load_dataframe(dataset)
                       IN IF df.status # "ok" THEN NoMetrics(df.status)
                          ELSE compute_concentration_metrics(df)
    /\ resolved' = IF hhi_metrics'.status = "ok"
                  THEN [n \in GroupNames(dataset.rows) |->
                           _resolve_weights(Subset(dataset.rows, n))]
                  ELSE <<>>
    /\ pc' = "done"
    /\ UNCHANGED <<constituents, financials, canonical, dataset, pbr_metrics,
                   roe_metrics, dy_metrics, logic, insights, codex, notes, runs>>

NextHhi == ConcentrationMetrics

SpecHhi == InitHhi /\ [][NextHhi]_vars

-----------------------------------------------------------------------------
(* Specification SpecCoerce: the ingest stage on one constituent and its      *)
(* financial records, any numeric field of which may be text that is no      *)
(* number                                                                    *)

Holding ==
    [kind : {"entry"}, index : {ABSENT}, code : {"1001"}, name : {"Alpha"},
     sector : {"Materials"}, weight : {None, Num(5), Str}]

Filings ==
    [kind : {"entry"}, index : {ABSENT}, code : {"1001"}, date : {Date(1)},
     pbr : {Num(8), Str}, roe : {Num(50), Str}, dy : {Num(26), Str},
     market_cap : {Num(900), Str}, weight : {None, Num(7), Str}]

InitCoerce ==
    /\ pc = "ingest"
    /\ constituents \in {ListDoc(<<h>>) : h \in Holding}
    /\ financials \in {ListDoc(s) : s \in BSeq(Filings, MaxRecords)}
    /\ canonical = NotBuilt
    /\ dataset = NoDataset
    /\ pbr_metrics = NotComputed
    /\ roe_metrics = NotComputed
    /\ dy_metrics = NotComputed
    /\ hhi_metrics = NotComputed
    /\ resolved = <<>>
    /\ logic = NotDerived
    /\ insights = NoInsights
    /\ codex = NoRun
    /\ notes = NotWritten
    /\ runs = <<>>

SpecCoerce == InitCoerce /\ [][Next]_vars

-----------------------------------------------------------------------------
(* Specification SpecModules: each statistics module on its bounded table *)

InitModules == InitStats \/ InitHhi

NextModules == NextStats \/ NextHhi

SpecModules == InitModules /\ [][NextModules]_vars

-----------------------------------------------------------------------------
(* Specification SpecCodex: the narrative-refresh helper in a bounded         *)
(* environment                                                               *)

Responses ==
    {Raises, Opaque}
    \cup {WithOutputText(s) : s \in {"", "commentary"}}
    \cup {WithChoices(c) : c \in BSeq({"", "first", "second"}, MaxChoices)}

Environments ==
    [prompt : {"missing", "present"}, api_key : {"unset", "", "key"},
     openai : {"missing", "installed"}, client : {"raises", "ok"},
     response : Responses]

InitCodex ==
    /\ pc = "refresh"
    /\ codex \in Environments
    /\ notes \in {NotWritten, Text(<<"earlier notes">>)}
    /\ constituents = NoDocument
    /\ financials = NoDocument
    /\ canonical = NotBuilt
    /\ dataset = NoDataset
    /\ pbr_metrics = NotComputed
    /\ roe_metrics = NotComputed
    /\ dy_metrics = NotComputed
    /\ hhi_metrics = NotComputed
    /\ resolved = <<>>
    /\ logic = NotDerived
    /\ insights = NoInsights
    /\ runs = <<>>

\* codex_runner main(): load_prompt raises when there is no prompt file;
\* otherwise the output of _call_openai, or the placeholder, is written,
\* unless an exception leaves _call_openai
RefreshNotes ==
    /\ pc = "refresh"
    /\ IF codex.prompt = "missing" \/ _call_openai(codex) = Escapes
       THEN /\ pc' = "failed"
            /\ notes' = notes
       ELSE /\ pc' = "refreshed"
            /\ notes' = LET output == _call_openai(codex)
                        IN IF Truthy(output) THEN output ELSE PLACEHOLDER
    /\ UNCHANGED <<constituents, financials, canonical, dataset, pbr_metrics,
                   roe_metrics, dy_metrics, hhi_metrics, resolved, logic,
                   insights, codex, runs>>

NextCodex == RefreshNotes

SpecCodex == InitCodex /\ [][NextCodex]_vars

-----------------------------------------------------------------------------
(* Specification SpecRender: the narrative derivation on bounded metrics     *)
(* documents, each value present or missing                                  *)

MetricValues == {None, Rat(1, 3), Rat(1, 2)}

\* index name -> value, with or without an entry for the primary index
IndexMaps ==
    [{PRIMARY, BENCHMARK} -> MetricValues] \cup [{BENCHMARK} -> MetricValues]

Top10Maps == [{PRIMARY} -> {None, Num(1)}]

\* a metrics file: missing, or holding a document
Files(docs) == {NotComputed} \cup {Metrics(d) : d \in docs}

PbrDocs == {[lt1 |-> m] : m \in IndexMaps}
RoeDocs == {[median |-> m] : m \in IndexMaps}
DyDocs == {[mean |-> m] : m \in IndexMaps}
HhiDocs ==
    {[hhi |-> m] : m \in IndexMaps}
    \cup {[hhi |-> m, top10_weight |-> w] : m \in IndexMaps, w \in Top10Maps}

InitRender ==
    /\ pc = "render"
    /\ pbr_metrics \in Files(PbrDocs)
    /\ roe_metrics \in Files(RoeDocs)
    /\ dy_metrics \in Files(DyDocs)
    /\ hhi_metrics \in Files(HhiDocs)
    /\ constituents = NoDocument
    /\ financials = NoDocument
    /\ canonical = NotBuilt
    /\ dataset = NoDataset
    /\ resolved = <<>>
    /\ logic = NotDerived
    /\ insights = NoInsights
    /\ runs = <<>>
    /\ codex = NoRun
    /\ notes = NotWritten

NextRender == DeriveLogic

SpecRender == InitRender /\ [][NextRender]_vars

-----------------------------------------------------------------------------
(* Specification SpecRuns: the pipeline from the raw documents to the        *)
(* metrics documents, run again on the same documents and the files the      *)
(* run before left                                                           *)

InitRuns ==
    /\ pc = "ingest"
    /\ \E c \in 0..MaxCons, f \in 0..MaxFins :
          /\ c + f <= MaxRunRows
          /\ constituents \in ConstituentDocs(c)
          /\ financials \in FinancialDocs(f)
    /\ canonical = NotBuilt
    /\ dataset = NoDataset
    /\ pbr_metrics = NotComputed
    /\ roe_metrics = NotComputed
    /\ dy_metrics = NotComputed
    /\ hhi_metrics = NotComputed
    /\ resolved = <<>>
    /\ logic = NotDerived
    /\ insights = NoInsights
    /\ codex = NoRun
    /\ notes = NotWritten
    /\ runs = <<>>

\* the statistics modules follow the ingest stage
StartModules ==
    /\ pc = "written"
    /\ pc' = "pbr"
    /\ UNCHANGED <<constituents, financials, canonical, dataset, pbr_metrics,
                   roe_metrics, dy_metrics, hhi_metrics, resolved, logic,
                   insights, codex, notes, runs>>

\* the yield module follows the ROE module
StartYield ==
    /\ pc = "render"
    /\ pc' = "dy"
    /\ UNCHANGED <<constituents, financials, canonical, dataset, pbr_metrics,
                   roe_metrics, dy_metrics, hhi_metrics, resolved, logic,
                   insights, codex, notes, runs>>

\* yield_stats main(); the concentration module follows
YieldStats ==
    /\ pc = "dy"
    /\ dy_metrics' = LET df == load_dataframe(dataset)
                      IN IF df.status # "ok" THEN NoMetrics(df.status)
                         ELSE compute_yield_stats(df)
    /\ pc' = "hhi"
    /\ UNCHANGED <<constituents, financials, canonical, dataset, pbr_metrics,
                   roe_metrics, hhi_metrics, resolved, logic, insights, codex,
                   notes, runs>>

\* the file a module's main() leaves: the text dump_json wrote
Written(outcome) ==
    IF outcome.status = "ok" THEN dump_json(outcome.doc) ELSE [members |-> <<>>]

\* the run is over; the next one finds every file this one wrote
FinishRun ==
    /\ pc = "done"
    /\ Len(runs) < MaxRuns
    /\ runs' = Append(runs, [pbr |-> Written(pbr_metrics),
                             roe |-> Written(roe_metrics),
                             dy  |-> Written(dy_metrics),
                             hhi |-> Written(hhi_metrics)])
    /\ pc' = IF Len(runs') < MaxRuns THEN "ingest" ELSE "end"
    /\ UNCHANGED <<constituents, financials, canonical, dataset, pbr_metrics,
                   roe_metrics, dy_metrics, hhi_metrics, resolved, logic,
                   insights, codex, notes>>

NextRuns ==
    \/ BuildCanonical
    \/ StartModules
    \/ PbrStats
    \/ RoeStats
    \/ StartYield
    \/ YieldStats
    \/ ConcentrationMetrics
    \/ FinishRun

SpecRuns == InitRuns /\ [][NextRuns]_vars

-----------------------------------------------------------------------------
(* Specification SpecMissing: every stage, started with one of its inputs    *)
(* missing or unreadable                                                     *)

MetricsFiles == <<pbr_metrics, roe_metrics, dy_metrics, hhi_metrics>>

InitMissing ==
    \/ Init /\ (constituents = MissingFile \/ financials = MissingFile)
    \/ InitStats /\ dataset.file # "csv"
    \/ InitHhi /\ dataset.file # "csv"
    \/ InitRender /\ \E i \in DOMAIN MetricsFiles : MetricsFiles[i].status = "none"
    \/ InitCodex /\ (\/ codex.prompt = "missing"
                     \/ codex.api_key \in {"unset", ""}
                     \/ codex.openai = "missing")

NextMissing == Next \/ NextStats \/ NextHhi \/ NextRender \/ NextCodex

SpecMissing == InitMissing /\ [][NextMissing]_vars

-----------------------------------------------------------------------------
(* Claims about the ingest stage, checked under Spec *)

\* the normalized frames the returned table was built from
ConstituentFrame == _normalize_constituents(constituents).rows
FinancialFrame == _normalize_financials(financials).rows

\* the financial records of one (index, code) pair that carry a valid date
DatedRecords(row) ==
    {j \in DOMAIN FinancialFrame :
        SameKey(row, FinancialFrame[j]) /\ ~IsNone(FinancialFrame[j].date)}

\* the financial record that survives deduplication for a pair, if any
Survivors(row) ==
    LET fin == Deduplicate(FinancialFrame)
    IN {fin[j] : j \in {k \in DOMAIN fin : SameKey(row, fin[k])}}

Usable(v) == v.tag = "num"

\* C1: whenever build_canonical returns a table, no two of its rows share
\* the same (index, code) pair.
C1_UniqueIndexCode ==
    canonical.status = "ok" =>
        \A i, j \in DOMAIN canonical.rows :
            i # j => ~SameKey(canonical.rows[i], canonical.rows[j])

\* C2: for every (index, code) group of financial records holding at least
\* one record with a valid date, the canonical row carries the record with
\* the maximum date; a record without a date never wins over a dated one.
C2_LatestDateSurvives ==
    canonical.status = "ok" =>
        \A i \in DOMAIN canonical.rows :
            LET dated == DatedRecords(canonical.rows[i])
            IN dated # {} =>
                 /\ canonical.rows[i].date.tag = "datestr"
                 /\ \A j \in dated :
                       FinancialFrame[j].date.val <= canonical.rows[i].date.val

\* C3: every constituent has a canonical row whose weight is the
\* constituent's own when it has a usable one, the surviving financial
\* record's when the constituent states none, and is missing only if neither
\* the constituent nor the surviving financial record has a usable weight.
C3_WeightPrecedence ==
    canonical.status = "ok" =>
        \A k \in DOMAIN ConstituentFrame :
            LET c == ConstituentFrame[k]
            IN \E i \in DOMAIN canonical.rows :
                 LET r == canonical.rows[i]
                 IN /\ SameKey(r, c)
                    /\ Usable(c.weight) => r.weight = c.weight
                    /\ IsNone(c.weight) =>
                          \A s \in Survivors(c) :
                             Usable(s.weight) => r.weight = s.weight
                    /\ IsNone(r.weight) =>
                          /\ ~Usable(c.weight)
                          /\ \A s \in Survivors(c) : ~Usable(s.weight)

-----------------------------------------------------------------------------
(* Claims about the narrative derivation, checked under SpecRender *)

FAMILIES == {"PBR", "ROE", "DY", "HHI"}

\* how many bullets of one family a bucket holds
InBucket(bucket, family) ==
    Cardinality({i \in DOMAIN bucket : bucket[i].family = family})

Everywhere(family) ==
    InBucket(logic.strengths, family) + InBucket(logic.weaknesses, family)
        + InBucket(logic.cautions, family)

TotalBullets ==
    Len(logic.strengths) + Len(logic.weaknesses) + Len(logic.cautions)

\* the values derive_logic_summary reads from the loaded documents
PrimaryValue(family) ==
    IF family = "PBR" THEN safe_get(load_metrics(pbr_metrics), "lt1", PRIMARY)
    ELSE IF family = "ROE"
         THEN safe_get(load_metrics(roe_metrics), "median", PRIMARY)
    ELSE IF family = "DY" THEN safe_get(load_metrics(dy_metrics), "mean", PRIMARY)
    ELSE safe_get(load_metrics(hhi_metrics), "hhi", PRIMARY)

BenchmarkValue(family) ==
    IF family = "PBR" THEN safe_get(load_metrics(pbr_metrics), "lt1", BENCHMARK)
    ELSE IF family = "ROE"
         THEN safe_get(load_metrics(roe_metrics), "median", BENCHMARK)
    ELSE IF family = "DY"
         THEN safe_get(load_metrics(dy_metrics), "mean", BENCHMARK)
    ELSE safe_get(load_metrics(hhi_metrics), "hhi", BENCHMARK)

Top10Missing ==
    IsNone(safe_get(load_metrics(hhi_metrics), "top10_weight", PRIMARY))

\* C4: each of the four metric families has exactly one bullet in exactly
\* one bucket; there is one further caution bullet iff top10_weight is
\* missing for the primary index; so the buckets hold 4 or 5 bullets.
C4_OneBulletPerFamily ==
    pc = "done" =>
        /\ \A f \in FAMILIES : Everywhere(f) = 1
        /\ InBucket(logic.cautions, "TOP10") = (IF Top10Missing THEN 1 ELSE 0)
        /\ InBucket(logic.strengths, "TOP10") = 0
        /\ InBucket(logic.weaknesses, "TOP10") = 0
        /\ TotalBullets = (IF Top10Missing THEN 5 ELSE 4)

\* a run that filled all three buckets with top10_weight present
C4_Witness ==
    /\ pc = "done"
    /\ ~Top10Missing
    /\ TotalBullets = 4
    /\ logic.strengths # <<>>
    /\ logic.weaknesses # <<>>
    /\ logic.cautions # <<>>

\* C5 as stated: for each of the four families, a missing primary or
\* benchmark value puts the family's bullet in cautions.
C5_MissingRoutesToCautions ==
    pc = "done" =>
        \A f \in FAMILIES :
            (IsNone(PrimaryValue(f)) \/ IsNone(BenchmarkValue(f))) =>
                /\ InBucket(logic.cautions, f) = 1
                /\ InBucket(logic.strengths, f) = 0
                /\ InBucket(logic.weaknesses, f) = 0

\* C5 as amended: for PBR, ROE and yield a missing primary or benchmark
\* value puts the bullet in cautions; for HHI a missing primary value does,
\* while a missing benchmark value with the primary present puts the HHI
\* bullet in strengths.
C5_MissingRoutesToCautionsAmended ==
    pc = "done" =>
        /\ \A f \in FAMILIES \ {"HHI"} :
              (IsNone(PrimaryValue(f)) \/ IsNone(BenchmarkValue(f))) =>
                  /\ InBucket(logic.cautions, f) = 1
                  /\ InBucket(logic.strengths, f) = 0
                  /\ InBucket(logic.weaknesses, f) = 0
        /\ IsNone(PrimaryValue("HHI")) =>
              /\ InBucket(logic.cautions, "HHI") = 1
              /\ InBucket(logic.strengths, "HHI") = 0
              /\ InBucket(logic.weaknesses, "HHI") = 0
        /\ (~IsNone(PrimaryValue("HHI")) /\ IsNone(BenchmarkValue("HHI"))) =>
              /\ InBucket(logic.strengths, "HHI") = 1
              /\ InBucket(logic.cautions, "HHI") = 0
              /\ InBucket(logic.weaknesses, "HHI") = 0

\* a run with the PBR benchmark missing and the HHI benchmark missing while
\* the primary HHI is present
C5_Witness ==
    /\ pc = "done"
    /\ ~IsNone(PrimaryValue("PBR"))
    /\ IsNone(BenchmarkValue("PBR"))
    /\ InBucket(logic.cautions, "PBR") = 1
    /\ ~IsNone(PrimaryValue("HHI"))
    /\ IsNone(BenchmarkValue("HHI"))
    /\ InBucket(logic.strengths, "HHI") = 1

\* C6: every family whose primary and benchmark values are present and
\* equal has its bullet in strengths, never in weaknesses.
C6_TiesFavourStrengths ==
    pc = "done" =>
        \A f \in FAMILIES :
            (/\ ~IsNone(PrimaryValue(f))
             /\ ~IsNone(BenchmarkValue(f))
             /\ RatEq(PrimaryValue(f), BenchmarkValue(f))) =>
                /\ InBucket(logic.strengths, f) = 1
                /\ InBucket(logic.weaknesses, f) = 0

-----------------------------------------------------------------------------
(* Claims about the statistics modules, checked under SpecStats *)

\* the rows of one index whose value in a column is a number
Observed(index_name, column) ==
    {i \in DOMAIN dataset.rows :
        /\ dataset.rows[i].index = index_name
        /\ dataset.rows[i][column].tag = "num"}

\* the rows of one index whose PBR is a number below 1.0
BelowOne(index_name) ==
    {i \in Observed(index_name, "pbr") : dataset.rows[i].pbr.val < One}

\* the primary index's ratio of PBR values below 1 exceeds the benchmark's
PrimaryRatioGreater ==
    /\ Observed(PRIMARY, "pbr") # {}
    /\ Observed(BENCHMARK, "pbr") # {}
    /\ Cardinality(BelowOne(PRIMARY)) * Cardinality(Observed(BENCHMARK, "pbr"))
         > Cardinality(BelowOne(BENCHMARK)) * Cardinality(Observed(PRIMARY, "pbr"))

\* the primary index's ROE median is below the benchmark's
PrimaryMedianLower ==
    /\ roe_metrics.status = "ok"
    /\ ~IsNone(safe_get(roe_metrics.doc, "median", PRIMARY))
    /\ ~IsNone(safe_get(roe_metrics.doc, "median", BENCHMARK))
    /\ RatLess(safe_get(roe_metrics.doc, "median", PRIMARY),
               safe_get(roe_metrics.doc, "median", BENCHMARK))

\* C7: on metrics computed from a table, a primary PBR-below-1 ratio above
\* the benchmark's gives a PBR bullet in strengths, and a primary ROE median
\* below the benchmark's gives a ROE bullet in weaknesses.
C7_PbrStrengthRoeWeakness ==
    pc = "done" =>
        /\ PrimaryRatioGreater => InBucket(logic.strengths, "PBR") >= 1
        /\ PrimaryMedianLower => InBucket(logic.weaknesses, "ROE") >= 1

\* a table like the fixture: the primary ratio is higher, its median lower
C7_Witness ==
    /\ pc = "done"
    /\ PrimaryRatioGreater
    /\ PrimaryMedianLower
    /\ InBucket(logic.strengths, "PBR") = 1
    /\ InBucket(logic.weaknesses, "ROE") = 1

\* C8: for both modules and every index of the table, the reported count
\* is the number of rows of that index whose value is a number after
\* coercion.
C8_CountOfObservations ==
    /\ pbr_metrics.status = "ok" =>
          /\ DOMAIN pbr_metrics.doc.count = GroupNames(dataset.rows)
          /\ \A n \in GroupNames(dataset.rows) :
                pbr_metrics.doc.count[n] = Num(Cardinality(Observed(n, "pbr")))
    /\ roe_metrics.status = "ok" =>
          /\ DOMAIN roe_metrics.doc.count = GroupNames(dataset.rows)
          /\ \A n \in GroupNames(dataset.rows) :
                roe_metrics.doc.count[n] = Num(Cardinality(Observed(n, "roe")))

\* both modules ran on a table in which an index has rows that do not count
C8_Witness ==
    /\ pbr_metrics.status = "ok"
    /\ roe_metrics.status = "ok"
    /\ \E n \in GroupNames(dataset.rows) :
          /\ Len(Subset(dataset.rows, n)) = 2
          /\ pbr_metrics.doc.count[n] = Num(1)
          /\ roe_metrics.doc.count[n] = Num(1)

PbrStatistics == {"lt1", "mean", "median"}

\* C9: an index without valid observations has count 0 and null for every
\* statistic, an index with count > 0 has a value for every statistic, and
\* every mapping has the same set of indices.
C9_ZeroCountIsNull ==
    /\ pbr_metrics.status = "ok" =>
          LET doc == pbr_metrics.doc
          IN /\ \A k \in PbrStatistics : DOMAIN doc[k] = DOMAIN doc.count
             /\ \A n \in DOMAIN doc.count :
                   /\ doc.count[n].tag = "num"
                   /\ Observed(n, "pbr") = {} =>
                         /\ doc.count[n] = Num(0)
                         /\ \A k \in PbrStatistics : doc[k][n] = None
                   /\ doc.count[n].val > 0 =>
                         \A k \in PbrStatistics : doc[k][n].tag = "num"
    /\ roe_metrics.status = "ok" =>
          LET doc == roe_metrics.doc
          IN /\ DOMAIN doc.median = DOMAIN doc.count
             /\ DOMAIN doc.quantiles = QUANTILES
             /\ \A q \in QUANTILES : DOMAIN doc.quantiles[q] = DOMAIN doc.count
             /\ \A n \in DOMAIN doc.count :
                   /\ doc.count[n].tag = "num"
                   /\ Observed(n, "roe") = {} =>
                         /\ doc.count[n] = Num(0)
                         /\ doc.median[n] = None
                         /\ \A q \in QUANTILES : doc.quantiles[q][n] = None
                   /\ doc.count[n].val > 0 =>
                         /\ doc.median[n].tag = "num"
                         /\ \A q \in QUANTILES : doc.quantiles[q][n].tag = "num"

\* both modules ran on a table with an index that has no valid observation
\* and an index that has some
C9_Witness ==
    /\ pbr_metrics.status = "ok"
    /\ roe_metrics.status = "ok"
    /\ \E n, m \in GroupNames(dataset.rows) :
          /\ pbr_metrics.doc.count[n] = Num(0)
          /\ pbr_metrics.doc.lt1[n] = None
          /\ roe_metrics.doc.count[n] = Num(0)
          /\ roe_metrics.doc.quantiles["25"][n] = None
          /\ pbr_metrics.doc.count[m].val > 0
          /\ roe_metrics.doc.count[m].val > 0

-----------------------------------------------------------------------------
(* Claims about the concentration module, checked under SpecHhi *)

\* C10: for every index group with at least one row, the weights returned
\* by _resolve_weights are numbers that sum to 1.
C10_WeightsSumToOne ==
    (pc = "done" /\ hhi_metrics.status = "ok") =>
        /\ DOMAIN resolved = GroupNames(dataset.rows)
        /\ \A n \in DOMAIN resolved :
              /\ Len(resolved[n]) = Len(Subset(dataset.rows, n))
              /\ \A i \in DOMAIN resolved[n] : resolved[n][i].tag = "num"
              /\ RatEq(RatSum(resolved[n]), Num(1))

\* a group whose stated weights are partly missing, partly negative and
\* have a non-positive total
C10_Witness ==
    /\ pc = "done"
    /\ \E n \in DOMAIN resolved :
          LET subset == Subset(dataset.rows, n)
          IN /\ \E i \in DOMAIN subset : IsNone(subset[i].weight)
             /\ \E i \in DOMAIN subset :
                   subset[i].weight.tag = "num" /\ subset[i].weight.val < 0
             /\ Sum(StatedWeights(subset)) <= 0
             /\ RatEq(RatSum(resolved[n]), Num(1))

-----------------------------------------------------------------------------
(* Claims about missing inputs, checked under SpecMissing *)

\* the renderer has produced its narrative
RendererRan == insights # NoInsights

\* the metrics file of a family, and the place of its sentence in insights
FileOf(family) ==
    IF family = "PBR" THEN pbr_metrics
    ELSE IF family = "ROE" THEN roe_metrics
    ELSE IF family = "DY" THEN dy_metrics
    ELSE hhi_metrics

PlaceOf(family) ==
    IF family = "PBR" THEN 1
    ELSE IF family = "ROE" THEN 2
    ELSE IF family = "DY" THEN 3
    ELSE 4

\* a metrics file that was never written
FileMissing(family) == FileOf(family).status # "ok"

\* the notes file as it was before the helper ran
NotesUntouched == notes \in {NotWritten, Text(<<"earlier notes">>)}

\* C11 as stated: a stage that finds a required input file missing
\* (constituents, financials, canonical dataset, metrics file) raises and
\* produces no output; only the narrative-refresh helper goes on.
C11_MissingInputIsFatal ==
    /\ (constituents = MissingFile \/ financials = MissingFile) =>
           canonical.status # "ok"
    /\ dataset.file = "missing" => \A f \in FAMILIES : FileOf(f).status # "ok"
    /\ (\E f \in FAMILIES : FileMissing(f)) => ~RendererRan
    /\ codex.prompt = "missing" => NotesUntouched

\* C11, amended: a missing constituents file or dataset file raises
\* FileNotFoundError, a dataset file of an unsupported extension raises
\* ValueError, a missing financials file makes build_canonical raise, and a
\* missing prompt file leaves the notes untouched; none of these stages
\* writes output. A missing metrics file is not fatal: the renderer reads it
\* as an empty document and still produces its four sentences, the family of
\* the missing file getting a caution bullet and the sentence for missing data.
\* The helper writes the placeholder when the key or the library is missing.
C11_MissingInputIsFatalAmended ==
    /\ (constituents = MissingFile /\ canonical # NotBuilt) =>
           canonical.status = "FileNotFoundError"
    /\ (financials = MissingFile /\ canonical # NotBuilt) =>
           canonical.status \in {"FileNotFoundError", "ValueError", "KeyError"}
    /\ dataset.file = "missing" =>
           \A f \in FAMILIES : FileOf(f).status \in {"none", "FileNotFoundError"}
    /\ dataset.file = "txt" =>
           \A f \in FAMILIES : FileOf(f).status \in {"none", "ValueError"}
    /\ RendererRan =>
           /\ Len(insights) = 4
           /\ \A f \in FAMILIES : FileMissing(f) =>
                  /\ InBucket(logic.cautions, f) = 1
                  /\ InBucket(logic.strengths, f) = 0
                  /\ InBucket(logic.weaknesses, f) = 0
                  /\ insights[PlaceOf(f)].phrase = "insufficient"
    /\ codex.prompt = "missing" => NotesUntouched
    /\ (/\ pc = "refreshed"
        /\ codex.api_key \in {"unset", ""} \/ codex.openai = "missing") =>
           notes = PLACEHOLDER

\* the renderer ran without the PBR metrics file and with the HHI one
C11_Witness ==
    /\ RendererRan
    /\ pbr_metrics.status = "none"
    /\ hhi_metrics.status = "ok"
    /\ InBucket(logic.cautions, "PBR") = 1

-----------------------------------------------------------------------------
(* Claims about the shapes build_canonical rejects, checked under Spec *)

\* the values a document gives for its groups; a document that is no
\* mapping is its own single group
GroupValues(doc) ==
    IF doc.kind = "dict" THEN {doc.items[i].value : i \in DOMAIN doc.items}
    ELSE IF doc.kind = "records" THEN {doc.records}
    ELSE {doc}

\* the entries of a group: its "records" when it is a mapping that has them
EntriesOf(v) == IF v.kind = "records" THEN v.records ELSE v

\* a group that is there and whose entries are no list
NotAList(v) == EntriesOf(v).kind \notin {"list", "null", "missing"}

\* some group holds a mapping-shaped entry
HasUsableRecord(doc) ==
    \E v \in GroupValues(doc) :
        /\ EntriesOf(v).kind = "list"
        /\ \E i \in DOMAIN EntriesOf(v).items : EntriesOf(v).items[i].kind = "entry"

\* build_canonical has run on a constituents file that exists
BuiltFromFile == canonical # NotBuilt /\ constituents # MissingFile

-----------------------------------------------------------------------------
(* Claims about running the pipeline again, checked under SpecRuns *)

\* the members of a text, and of every text nested in it, are in ascending
\* key order
RECURSIVE KeysSorted(_)
KeysSorted(text) ==
    IF "members" \notin DOMAIN text THEN TRUE
    ELSE /\ \A i, j \in DOMAIN text.members :
                i < j => StrLess(text.members[i].key, text.members[j].key)
         /\ \A i \in DOMAIN text.members : KeysSorted(text.members[i].value)

-----------------------------------------------------------------------------
(* Claims about the narrative-refresh helper, checked under SpecCodex *)

\* the helper has run with a prompt file in place
Refreshed == codex.prompt = "present" /\ pc # "refresh"

\* the key is set and the library is there
CallMade == codex.api_key \notin {"unset", ""} /\ codex.openai = "installed"

\* the call is made and returns
CallSucceeds ==
    /\ CallMade
    /\ codex.client = "ok"
    /\ codex.response.kind # "raises"

\* the text of the service, where the response carries one as output_text
ServiceText == Text(<<codex.response.output_text>>)

-----------------------------------------------------------------------------
(* Claims about the columns the modules require, checked under SpecModules *)

\* what the claim has a module do on a table that was read: metrics when
\* all the columns it names are there, ValueError otherwise
Required(columns) ==
    IF columns \subseteq dataset.columns THEN "ok" ELSE "ValueError"

\* C15: a module raises ValueError, and returns no metrics, whenever the
\* table lacks the index column or the module's value column (pbr for the PBR
\* module, roe for the ROE module, sector or weight for the concentration
\* module), and returns metrics when the columns are there.
C15_MissingColumnIsValueError ==
    dataset.file = "csv" =>
        /\ pbr_metrics # NotComputed =>
               pbr_metrics.status = Required({"index", "pbr"})
        /\ roe_metrics # NotComputed =>
               roe_metrics.status = Required({"index", "roe"})
        /\ hhi_metrics # NotComputed =>
               hhi_metrics.status = Required({"index", "sector", "weight"})

-----------------------------------------------------------------------------
(* Claims about fields that are no numbers, checked under SpecCoerce *)

\* the constituent and, of its financial records, the one that survives
\* deduplication: the last of the document, all being of one date
TheHolding == constituents.items[1]
Surviving == financials.items[Len(financials.items)]

\* build_canonical has run on a document with a financial record
Coerced == canonical # NotBuilt /\ financials.items # <<>>

SIDE_COLUMNS == {"pbr", "roe", "dy", "market_cap"}

\* C16 as stated: a financial record with a pbr, roe, dy, market_cap or
\* weight that is no number never makes build_canonical raise; the row of
\* its (index, code) is produced, with a missing value in that column and
\* the other fields of the record unchanged.
C16_UnparseableBecomesMissing ==
    Coerced =>
        /\ canonical.status = "ok"
        /\ Len(canonical.rows) = 1
        /\ \A c \in SIDE_COLUMNS \cup {"weight"} :
               Surviving[c] = Str => IsNone(canonical.rows[1][c])
        /\ \A c \in SIDE_COLUMNS :
               Surviving[c] # Str => canonical.rows[1][c] = Surviving[c]
        /\ canonical.rows[1].date = DateStr(Surviving.date.val)

\* C16, amended: as stated for pbr, roe, dy and market_cap; a financial
\* weight that is no number leaves the canonical weight to the constituent:
\* it is the constituent's weight when that is a number, and missing
\* otherwise.
C16_UnparseableBecomesMissingAmended ==
    Coerced =>
        /\ canonical.status = "ok"
        /\ Len(canonical.rows) = 1
        /\ \A c \in SIDE_COLUMNS :
               Surviving[c] = Str => IsNone(canonical.rows[1][c])
        /\ \A c \in SIDE_COLUMNS :
               Surviving[c] # Str => canonical.rows[1][c] = Surviving[c]
        /\ canonical.rows[1].date = DateStr(Surviving.date.val)
        /\ Surviving.weight = Str =>
               canonical.rows[1].weight =
                   (IF TheHolding.weight.tag = "num" THEN TheHolding.weight
                    ELSE None)

\* a row whose record had text for pbr and for weight and numbers elsewhere
C16_Witness ==
    /\ canonical.status = "ok"
    /\ Len(financials.items) = 2
    /\ Surviving.pbr = Str
    /\ Surviving.weight = Str
    /\ Surviving.roe = Num(50)
    /\ IsNone(canonical.rows[1].pbr)
    /\ IsNone(canonical.rows[1].weight)
    /\ canonical.rows[1].roe = Num(50)

-----------------------------------------------------------------------------
(* Claims about the reported concentration, checked under SpecHhi *)

\* the concentration module has written its metrics
Concentrated == pc = "done" /\ hhi_metrics.status = "ok"

\* the weights of a group before they are divided by their total: the
\* stated ones with missing as zero when one is present, else all 1; all 1
\* when the total of those is not positive
ClaimedWeights(subset) ==
    LET present == {i \in DOMAIN subset : subset[i].weight.tag = "num"}
        stated  == [i \in DOMAIN subset |->
                       IF present = {} THEN 1
                       ELSE IF i \in present THEN subset[i].weight.val
                       ELSE 0]
    IN IF Sum(stated) <= 0 THEN [i \in DOMAIN subset |-> 1] ELSE stated

SECTORS == <<"Materials", "Industrials", "Unknown">>
ClaimedSector(row) == IF row.sector = ABSENT THEN "Unknown" ELSE row.sector

\* the total of the weights of the rows of one sector
SectorTotal(subset, sector) ==
    Sum([i \in DOMAIN subset |->
            IF ClaimedSector(subset[i]) = sector THEN ClaimedWeights(subset)[i]
            ELSE 0])

\* the sum over the sectors of the squared share of the sector
ClaimedHhi(subset) ==
    LET total == Sum(ClaimedWeights(subset))
    IN Div(Sum([k \in DOMAIN SECTORS |->
                   SectorTotal(subset, SECTORS[k]) * SectorTotal(subset, SECTORS[k])]),
           total * total)

\* C17: per index the weights are the stated ones with missing as zero when
\* one is present and equal otherwise, equal again when their total is not
\* positive, each divided by the total; the reported hhi is the sum over
\* sectors, a missing sector being "Unknown", of the squared sum of the
\* weights of the sector, so two rows of equal weight in two sectors give 0.5.
C17_HhiOfResolvedWeights ==
    Concentrated =>
        \A n \in GroupNames(dataset.rows) :
            LET subset == Subset(dataset.rows, n)
                hhi    == hhi_metrics.doc.hhi[n]
            IN /\ \A i \in DOMAIN subset :
                      /\ resolved[n][i].tag = "num"
                      /\ RatEq(resolved[n][i],
                               Div(ClaimedWeights(subset)[i],
                                   Sum(ClaimedWeights(subset))))
               /\ hhi.tag = "num"
               /\ RatEq(hhi, ClaimedHhi(subset))
               /\ ( /\ Len(subset) = 2
                    /\ subset[1].weight = subset[2].weight
                    /\ ClaimedSector(subset[1]) # ClaimedSector(subset[2]) )
                  => RatEq(hhi, Rat(1, 2))

\* a group of two rows of weight 5, one of them without a sector, beside a
\* group whose only row states no weight
C17_Witness ==
    /\ Concentrated
    /\ \E n, m \in GroupNames(dataset.rows) :
          LET subset == Subset(dataset.rows, n)
              other  == Subset(dataset.rows, m)
          IN /\ Len(subset) = 2
             /\ subset[1].weight = Num(5)
             /\ subset[2].weight = Num(5)
             /\ subset[1].sector = ABSENT
             /\ subset[2].sector # ABSENT
             /\ RatEq(hhi_metrics.doc.hhi[n], Rat(1, 2))
             /\ Len(other) = 1
             /\ IsNone(other[1].weight)
             /\ resolved[m] = <<Num(1)>>
             /\ RatEq(hhi_metrics.doc.hhi[m], Num(1))

\* C19: for every index with a row the reported hhi is in (0, 1] and the
\* reported top10_weight in [0, 1], and top10_weight is 1 when the index
\* has at most 10 rows, whatever the weight column holds.
C19_ConcentrationInUnitRange ==
    Concentrated =>
        \A n \in GroupNames(dataset.rows) :
            LET hhi   == hhi_metrics.doc.hhi[n]
                top10 == hhi_metrics.doc.top10_weight[n]
            IN /\ hhi.tag = "num"
               /\ RatLess(Num(0), hhi)
               /\ ~RatLess(Num(1), hhi)
               /\ top10.tag = "num"
               /\ ~RatLess(top10, Num(0))
               /\ ~RatLess(Num(1), top10)
               /\ Len(Subset(dataset.rows, n)) <= TOP_N => RatEq(top10, Num(1))

-----------------------------------------------------------------------------
(* Claims about the comparison sentences, checked under SpecRender *)

\* build_insights has run
Rendered == pc = "done"

\* the families in the order of the sentences, and the name each sentence
\* opens with
SENTENCES == <<"PBR", "ROE", "DY", "HHI">>
Opening(family) ==
    IF family = "PBR" THEN "valuation"
    ELSE IF family = "ROE" THEN "profitability"
    ELSE IF family = "DY" THEN "income"
    ELSE "concentration"

\* both values of a family are there to be compared
Comparable(family) ==
    ~IsNone(PrimaryValue(family)) /\ ~IsNone(BenchmarkValue(family))

\* the phrasing for a difference primary - benchmark below zero, and for one
\* of zero or more
WhenNegative(family) ==
    IF family = "PBR" THEN "below" ELSE "lower"
WhenNotNegative(family) ==
    IF family = "PBR" THEN "above" ELSE "higher"

\* the phrasing the sign of the difference chooses
BySign(family) ==
    IF RatLess(PrimaryValue(family), BenchmarkValue(family))
    THEN WhenNegative(family)
    ELSE WhenNotNegative(family)

FourInOrder ==
    /\ Len(insights) = 4
    /\ \A k \in 1..4 : insights[k].family = Opening(SENTENCES[k])

\* C18 as stated: build_insights returns four sentences in the order
\* valuation, profitability, income, concentration; each is the "data
\* insufficient" phrasing when the primary or the benchmark value is
\* missing, and else one of two phrasings chosen by the sign of the
\* difference of primary and benchmark.
C18_FourSentencesBySign ==
    Rendered =>
        /\ FourInOrder
        /\ \A k \in 1..4 :
              insights[k].phrase =
                  (IF Comparable(SENTENCES[k]) THEN BySign(SENTENCES[k])
                   ELSE "insufficient")

\* C18, amended: four sentences in that order; for valuation, profitability
\* and income as stated; the concentration sentence is the "data
\* insufficient" phrasing exactly when the primary value is missing, and
\* has one other phrasing, whatever the benchmark value is.
C18_FourSentencesBySignAmended ==
    Rendered =>
        /\ FourInOrder
        /\ \A k \in 1..3 :
              insights[k].phrase =
                  (IF Comparable(SENTENCES[k]) THEN BySign(SENTENCES[k])
                   ELSE "insufficient")
        /\ insights[4].phrase =
               (IF IsNone(PrimaryValue("HHI")) THEN "insufficient" ELSE "level")

\* valuation below the benchmark, profitability without a benchmark value,
\* income equal to the benchmark, concentration without a benchmark value
C18_Witness ==
    /\ Rendered
    /\ RatLess(PrimaryValue("PBR"), BenchmarkValue("PBR"))
    /\ Comparable("PBR")
    /\ insights[1].phrase = "below"
    /\ ~IsNone(PrimaryValue("ROE"))
    /\ IsNone(BenchmarkValue("ROE"))
    /\ insights[2].phrase = "insufficient"
    /\ Comparable("DY")
    /\ PrimaryValue("DY") = BenchmarkValue("DY")
    /\ insights[3].phrase = "higher"
    /\ ~IsNone(PrimaryValue("HHI"))
    /\ IsNone(BenchmarkValue("HHI"))
    /\ insights[4].phrase = "level"

=============================================================================
